---- MODULE Spec2Model ----
(***************************************************************************)
(* Edition lookup routes of the BookBrainz API (src/api/routes/edition.js). *)
(* Four GET routes, each a two-stage pipeline: the entity loader built by   *)
(* makeEntityLoader, then an async handler that awaits the route's          *)
(* formatter on res.locals.entity and sends it with status 200.             *)
(*                                                                          *)
(* The route file imports the loader (api/helpers/entityLoader), the        *)
(* formatters (api/helpers/formatEntityData) and three relation path sets   *)
(* (api/helpers/utils); these, the store and the failure handler behind the *)
(* router are modelled from their documented contracts.                     *)
(***************************************************************************)
EXTENDS Integers, Sequences, FiniteSets, TLC

\* Number of requests in flight that the model follows.
MaxReqs == 2

Reqs == 1..MaxReqs

Routes == {"/:bbid", "/:bbid/aliases", "/:bbid/identifiers", "/:bbid/relationships"}

\* Path parameters tried: an Edition with every relation empty, an Edition
\* with populated relations, and an id that names nothing.
BBIDs == {"e0", "e1", "u"}

----------------------------------------------------------------------------
(* Relation path sets.  A dot-delimited path is a sequence of segments.    *)

editionBasicRelations ==
    << <<"defaultAlias", "language">>,
       <<"languageSet", "languages">>,
       <<"disambiguation">>,
       <<"editionFormat">>,
       <<"editionStatus">>,
       <<"releaseEventSet", "releaseEvents">> >>

aliasesRelation == << <<"aliasSet", "aliases", "language">> >>

identifiersRelation == << <<"identifierSet", "identifiers", "type">> >>

relationshipsRelation == << <<"relationshipSet", "relationships", "type">> >>

editionError == "Edition not found"

\* First segments of a path set: the relations populated on the entity.
Heads(relations) == {relations[i][1] : i \in 1..Len(relations)}

----------------------------------------------------------------------------
(* The store.  An optional sub-relation is a sequence of length 0 or 1.    *)

EditionRows ==
    [id \in {"e0", "e1"} |->
        IF id = "e0"
        THEN [bbid |-> "e0", type |-> "Edition",
              defaultAlias |-> <<>>,
              languageSet |-> <<>>,
              disambiguation |-> <<>>,
              editionFormat |-> <<>>,
              editionStatus |-> <<>>,
              releaseEventSet |-> <<>>,
              aliasSet |-> <<>>,
              identifierSet |-> <<>>,
              relationshipSet |-> <<>>]
        ELSE [bbid |-> "e1", type |-> "Edition",
              defaultAlias |-> <<"Dune">>,
              languageSet |-> <<"English", "French">>,
              disambiguation |-> <<"first printing">>,
              editionFormat |-> <<"eBook">>,
              editionStatus |-> <<"Official">>,
              releaseEventSet |-> <<"2011-01-01">>,
              aliasSet |->
                  << [id |-> 1, name |-> "Dune", language |-> "English",
                      primary |-> TRUE],
                     [id |-> 2, name |-> "Dune (fr)", language |-> "French",
                      primary |-> FALSE] >>,
              identifierSet |->
                  << [id |-> 7, type |-> "ISBN-13", value |-> "9780441013593"] >>,
              relationshipSet |->
                  << [id |-> 4, type |-> "Edition", sourceBbid |-> "e1",
                      targetBbid |-> "w9"],
                     [id |-> 5, type |-> "Publisher", sourceBbid |-> "p3",
                      targetBbid |-> "e1"] >>]]

Store(modelName) ==
    IF modelName = "Edition" THEN EditionRows ELSE [id \in {} |-> <<>>]

NoEntity == [undefined |-> TRUE]

\* orm.func.entity.getEntity: the entity's scalars and exactly the requested
\* relations.
getEntity(modelName, bbid, relations) ==
    LET row == Store(modelName)[bbid] IN
    [bbid |-> row.bbid, type |-> row.type,
     rel |-> [f \in Heads(relations) |-> row[f]]]

----------------------------------------------------------------------------
(* Formatters: pure projections of a resolved entity.  A formatter applied *)
(* to an entity that lacks the relations it reads has no defined output.   *)

Undefined == [undefined |-> TRUE, projection |-> TRUE]

Has(entity, fields) == "rel" \in DOMAIN entity /\ fields \subseteq DOMAIN entity.rel

\* A nullable sub-relation: the value, or the placeholder when it is null.
OrNull(opt) == IF Len(opt) = 0 THEN "null" ELSE opt[1]

FormatAlias(a) == [name |-> a.name, language |-> a.language, isPrimary |-> a.primary]

FormatIdentifier(i) == [type |-> i.type, value |-> i.value]

FormatRelationship(r) ==
    [relationshipType |-> r.type, sourceBbid |-> r.sourceBbid,
     targetBbid |-> r.targetBbid]

getEditionBasicInfo(entity) ==
    IF ~Has(entity, Heads(editionBasicRelations)) THEN Undefined
    ELSE [bbid |-> entity.bbid,
          defaultAlias |-> OrNull(entity.rel["defaultAlias"]),
          disambiguation |-> OrNull(entity.rel["disambiguation"]),
          editionFormat |-> OrNull(entity.rel["editionFormat"]),
          languages |-> entity.rel["languageSet"],
          releaseEventDates |-> entity.rel["releaseEventSet"],
          status |-> OrNull(entity.rel["editionStatus"])]

getEntityAliases(entity) ==
    IF ~Has(entity, Heads(aliasesRelation)) THEN Undefined
    ELSE [bbid |-> entity.bbid,
          aliases |->
              [i \in 1..Len(entity.rel["aliasSet"]) |->
                  FormatAlias(entity.rel["aliasSet"][i])]]

getEntityIdentifiers(entity) ==
    IF ~Has(entity, Heads(identifiersRelation)) THEN Undefined
    ELSE [bbid |-> entity.bbid,
          identifiers |->
              [i \in 1..Len(entity.rel["identifierSet"]) |->
                  FormatIdentifier(entity.rel["identifierSet"][i])]]

getEntityRelationships(entity) ==
    IF ~Has(entity, Heads(relationshipsRelation)) THEN Undefined
    ELSE [bbid |-> entity.bbid,
          relationships |->
              [i \in 1..Len(entity.rel["relationshipSet"]) |->
                  FormatRelationship(entity.rel["relationshipSet"][i])]]

Formatters ==
    {"getEditionBasicInfo", "getEntityAliases", "getEntityIdentifiers",
     "getEntityRelationships"}

\* Calling a formatter by name.
Format(formatter, entity) ==
    CASE formatter = "getEditionBasicInfo" -> getEditionBasicInfo(entity)
      [] formatter = "getEntityAliases" -> getEntityAliases(entity)
      [] formatter = "getEntityIdentifiers" -> getEntityIdentifiers(entity)
      [] formatter = "getEntityRelationships" -> getEntityRelationships(entity)

----------------------------------------------------------------------------
(* Route bindings: router.get(path, makeEntityLoader(...), handler).       *)

RouteModel(route) == "Edition"

\* Variant: the aliases route loads with the identifiers path set.
RouteRelationsSwapped(route) ==
    CASE route = "/:bbid" -> editionBasicRelations
      [] route = "/:bbid/aliases" -> identifiersRelation
      [] route = "/:bbid/identifiers" -> identifiersRelation
      [] route = "/:bbid/relationships" -> relationshipsRelation

RouteRelations(route) ==
    CASE route = "/:bbid" -> editionBasicRelations
      [] route = "/:bbid/aliases" -> aliasesRelation
      [] route = "/:bbid/identifiers" -> identifiersRelation
      [] route = "/:bbid/relationships" -> relationshipsRelation

\* Variant: one route is built with a message of its own.
RouteErrorPerRoute(route) ==
    IF route = "/:bbid/identifiers" THEN "Identifiers not found" ELSE editionError

RouteError(route) == editionError

RouteFormatter(route) ==
    CASE route = "/:bbid" -> "getEditionBasicInfo"
      [] route = "/:bbid/aliases" -> "getEntityAliases"
      [] route = "/:bbid/identifiers" -> "getEntityIdentifiers"
      [] route = "/:bbid/relationships" -> "getEntityRelationships"

\* Variant: the handler is registered ahead of the loader.
PipelineHandlerFirst(route) == <<"handler", "loader">>

\* Variant: the loader is registered twice.
PipelineLoaderTwice(route) == <<"loader", "loader", "handler">>

\* The middleware stack of a route, in registration order.
Pipeline(route) == <<"loader", "handler">>

----------------------------------------------------------------------------
(* Requests.                                                               *)

VARIABLES
    pc,          \* where each request is: idle, loading, formatting, error,
                 \* sent, rejected, cancelled, unhandled
    route,       \* the route the request matched
    bbid,        \* req.params.bbid
    stage,       \* index of the running middleware in the route's stack
    locals,      \* res.locals.entity
    loaded,      \* the model name and relation paths the loader resolved with
    storeReads,  \* reads issued against the store for the request
    calls,       \* formatter invocations made for the request
    storeResult, \* how the store access ended: found, absent, failure,
                 \* cancelled (none while it has not ended)
    thrown,      \* the error travelling to the failure boundary
    dropped,     \* the client connection has closed
    responses    \* responses written for the request

vars == <<pc, route, bbid, stage, locals, loaded, storeReads, calls,
          storeResult, thrown, dropped, responses>>

NoLoad == [modelName |-> "none", relations |-> <<>>]

OkStatus == 200

NotFoundStatus == 404

FailureStatus == 500

Init ==
    /\ pc = [r \in Reqs |-> "idle"]
    /\ route = [r \in Reqs |-> "none"]
    /\ bbid = [r \in Reqs |-> "none"]
    /\ stage = [r \in Reqs |-> 0]
    /\ locals = [r \in Reqs |-> NoEntity]
    /\ loaded = [r \in Reqs |-> NoLoad]
    /\ storeReads = [r \in Reqs |-> 0]
    /\ calls = [r \in Reqs |-> <<>>]
    /\ storeResult = [r \in Reqs |-> "none"]
    /\ thrown = [r \in Reqs |-> "none"]
    /\ dropped = [r \in Reqs |-> FALSE]
    /\ responses = [r \in Reqs |-> <<>>]

\* Variant: the entity is kept in one place shared by all requests.
HandlerEntityShared(r, loc) ==
    IF \E q \in Reqs : q # r /\ loc[q] # NoEntity
    THEN loc[CHOOSE q \in Reqs : q # r /\ loc[q] # NoEntity]
    ELSE loc[r]

\* The entity the handler passes to its formatter: res.locals.entity of its
\* own response object.
HandlerEntity(r, loc) == loc[r]

\* Variant: the handler sends the entity as loaded, unformatted.
HandlerResponseRaw(formatter, entity) ==
    [status |-> OkStatus, body |-> entity]

\* Variant: the handler treats an empty projection as a missing entity.
HandlerResponseEmptyIs404(formatter, entity) ==
    LET out == Format(formatter, entity)
        list == CASE formatter = "getEntityAliases" -> out.aliases
                  [] formatter = "getEntityIdentifiers" -> out.identifiers
                  [] formatter = "getEntityRelationships" -> out.relationships
                  [] OTHER -> <<out>>
    IN
    IF Len(list) = 0
    THEN [status |-> NotFoundStatus, body |-> [message |-> editionError]]
    ELSE [status |-> OkStatus, body |-> out]

\* const out = await formatter(res.locals.entity);
\* return res.status(200).send(out);
HandlerResponse(formatter, entity) ==
    [status |-> OkStatus, body |-> Format(formatter, entity)]

\* Express runs the middleware at index st of the route's stack up to its
\* first await: the loader issues its store read, the handler calls its
\* formatter.
Enter(r, rt, st, loc, ld) ==
    LET mw == IF st \in 1..Len(Pipeline(rt)) THEN Pipeline(rt)[st] ELSE "none" IN
    /\ stage' = [stage EXCEPT ![r] = st]
    /\ pc' = [pc EXCEPT ![r] =
                CASE mw = "loader" -> "loading"
                  [] mw = "handler" -> "formatting"
                  [] OTHER -> "unhandled"]
    /\ storeReads' = [storeReads EXCEPT ![r] =
                        IF mw = "loader" THEN @ + 1 ELSE @]
    /\ calls' = [calls EXCEPT ![r] =
                   IF mw = "handler"
                   THEN Append(@, [formatter |-> RouteFormatter(rt),
                                   entity |-> HandlerEntity(r, loc),
                                   with |-> ld[r]])
                   ELSE @]

\* A GET request arrives and is dispatched to the first middleware.
Arrive(r, rt, id) ==
    /\ pc[r] = "idle"
    /\ route' = [route EXCEPT ![r] = rt]
    /\ bbid' = [bbid EXCEPT ![r] = id]
    /\ Enter(r, rt, 1, locals, loaded)
    /\ UNCHANGED <<locals, loaded, storeResult, thrown, dropped, responses>>

\* Variant: the loader goes on after the connection has closed.
LoaderFoundIgnoringDrop(r) ==
    /\ pc[r] = "loading"
    /\ bbid[r] \in DOMAIN Store(RouteModel(route[r]))
    /\ locals' = [locals EXCEPT ![r] =
                    getEntity(RouteModel(route[r]), bbid[r],
                              RouteRelations(route[r]))]
    /\ loaded' = [loaded EXCEPT ![r] =
                    [modelName |-> RouteModel(route[r]),
                     relations |-> RouteRelations(route[r])]]
    /\ Enter(r, route[r], stage[r] + 1, locals', loaded')
    /\ storeResult' = [storeResult EXCEPT ![r] = "found"]
    /\ UNCHANGED <<route, bbid, thrown, dropped, responses>>

\* Loader: the store returned the entity; attach it and call next().
LoaderFound(r) ==
    /\ pc[r] = "loading"
    /\ ~dropped[r]
    /\ bbid[r] \in DOMAIN Store(RouteModel(route[r]))
    /\ locals' = [locals EXCEPT ![r] =
                    getEntity(RouteModel(route[r]), bbid[r],
                              RouteRelations(route[r]))]
    /\ loaded' = [loaded EXCEPT ![r] =
                    [modelName |-> RouteModel(route[r]),
                     relations |-> RouteRelations(route[r])]]
    /\ Enter(r, route[r], stage[r] + 1, locals', loaded')
    /\ storeResult' = [storeResult EXCEPT ![r] = "found"]
    /\ UNCHANGED <<route, bbid, thrown, dropped, responses>>

\* Loader: no entity with that id; answer 404 with the route's message.
LoaderNotFound(r) ==
    /\ pc[r] = "loading"
    /\ ~dropped[r]
    /\ bbid[r] \notin DOMAIN Store(RouteModel(route[r]))
    /\ responses' = [responses EXCEPT ![r] =
                       Append(@, [status |-> NotFoundStatus,
                                  body |-> [message |-> RouteError(route[r])]])]
    /\ pc' = [pc EXCEPT ![r] = "sent"]
    /\ storeResult' = [storeResult EXCEPT ![r] = "absent"]
    /\ UNCHANGED <<route, bbid, stage, locals, loaded, storeReads, calls,
                   thrown, dropped>>

\* Variant: the loader catches every failure of the store access and
\* answers as if the entity were missing.
LoaderStoreFailureCaught(r) ==
    /\ pc[r] = "loading"
    /\ ~dropped[r]
    /\ responses' = [responses EXCEPT ![r] =
                       Append(@, [status |-> NotFoundStatus,
                                  body |-> [message |-> RouteError(route[r])]])]
    /\ pc' = [pc EXCEPT ![r] = "sent"]
    /\ storeResult' = [storeResult EXCEPT ![r] = "failure"]
    /\ UNCHANGED <<route, bbid, stage, locals, loaded, storeReads, calls,
                   thrown, dropped>>

\* Loader: the store access failed; the failure leaves the loader as it is.
LoaderStoreFailure(r) ==
    /\ pc[r] = "loading"
    /\ ~dropped[r]
    /\ thrown' = [thrown EXCEPT ![r] = "StoreFailure"]
    /\ pc' = [pc EXCEPT ![r] = "error"]
    /\ storeResult' = [storeResult EXCEPT ![r] = "failure"]
    /\ UNCHANGED <<route, bbid, stage, locals, loaded, storeReads, calls,
                   dropped, responses>>

\* Loader: the connection closed during the store access; the lookup is
\* abandoned.
LoaderCancelled(r) ==
    /\ pc[r] = "loading"
    /\ dropped[r]
    /\ pc' = [pc EXCEPT ![r] = "cancelled"]
    /\ storeResult' = [storeResult EXCEPT ![r] = "cancelled"]
    /\ UNCHANGED <<route, bbid, stage, locals, loaded, storeReads, calls,
                   thrown, dropped, responses>>

\* The generic failure handler answers 5xx.
FailureBoundary(r) ==
    /\ pc[r] = "error"
    /\ responses' = [responses EXCEPT ![r] =
                       Append(@, [status |-> FailureStatus,
                                  body |-> [error |-> thrown[r]]])]
    /\ pc' = [pc EXCEPT ![r] = "sent"]
    /\ UNCHANGED <<route, bbid, stage, locals, loaded, storeReads, calls,
                   storeResult, thrown, dropped>>

\* Handler: the awaited formatter call fulfilled; send its value.
HandlerResolved(r) ==
    /\ pc[r] = "formatting"
    /\ responses' = [responses EXCEPT ![r] =
                       Append(@, HandlerResponse(calls[r][Len(calls[r])].formatter,
                                                 calls[r][Len(calls[r])].entity))]
    /\ pc' = [pc EXCEPT ![r] = "sent"]
    /\ UNCHANGED <<route, bbid, stage, locals, loaded, storeReads, calls,
                   storeResult, thrown, dropped>>

\* Handler: the awaited formatter call rejected.  The async function has no
\* try/catch and never calls next: its promise rejects, nothing is written
\* and no later middleware runs.  The router calls a middleware and does
\* nothing with the promise it returns, so the rejection reaches no one.
HandlerRejected(r) ==
    /\ pc[r] = "formatting"
    /\ pc' = [pc EXCEPT ![r] = "rejected"]
    /\ UNCHANGED <<route, bbid, stage, locals, loaded, storeReads, calls,
                   storeResult, thrown, dropped, responses>>

\* The client closes the connection while the store access is pending.
Drop(r) ==
    /\ pc[r] = "loading"
    /\ ~dropped[r]
    /\ dropped' = [dropped EXCEPT ![r] = TRUE]
    /\ UNCHANGED <<pc, route, bbid, stage, locals, loaded, storeReads, calls,
                   storeResult, thrown, responses>>

Next ==
    \/ \E r \in Reqs, rt \in Routes, id \in BBIDs : Arrive(r, rt, id)
    \/ \E r \in Reqs : LoaderFound(r)
    \/ \E r \in Reqs : LoaderNotFound(r)
    \/ \E r \in Reqs : LoaderStoreFailure(r)
    \/ \E r \in Reqs : LoaderCancelled(r)
    \/ \E r \in Reqs : FailureBoundary(r)
    \/ \E r \in Reqs : HandlerResolved(r)
    \/ \E r \in Reqs : HandlerRejected(r)
    \/ \E r \in Reqs : Drop(r)

Spec == Init /\ [][Next]_vars

----------------------------------------------------------------------------
(* Properties.                                                             *)

\* Ids with and without an Edition behind them.
HasEdition(id) == id \in DOMAIN EditionRows

NotFoundResponse ==
    [status |-> 404, body |-> [message |-> "Edition not found"]]

\* The request has ended: nothing of its pipeline is running or pending.
Ended(r) == pc[r] \in {"sent", "rejected", "cancelled", "unhandled"}

\* C1: a request for an id with no Edition behind it, whose store access
\* did not fail, ends with exactly the response 404 {message: "Edition not
\* found"} on each of the four routes, and never reaches a formatter.
C1_NotFoundUniform ==
    \A r \in Reqs :
        (pc[r] # "idle" /\ ~HasEdition(bbid[r])) =>
            /\ calls[r] = <<>>
            /\ storeResult[r] \in {"none", "absent", "failure", "cancelled"}
            /\ storeResult[r] = "absent" =>
                   /\ pc[r] = "sent"
                   /\ responses[r] = <<NotFoundResponse>>

C1_Witness ==
    \E r \in Reqs :
        /\ route[r] = "/:bbid/identifiers"
        /\ bbid[r] = "u"
        /\ pc[r] = "sent"
        /\ responses[r] = <<NotFoundResponse>>

\* The relation path set that belongs to each formatter.
OwnRelations(formatter) ==
    CASE formatter = "getEditionBasicInfo" -> editionBasicRelations
      [] formatter = "getEntityAliases" -> aliasesRelation
      [] formatter = "getEntityIdentifiers" -> identifiersRelation
      [] formatter = "getEntityRelationships" -> relationshipsRelation

\* C2: every formatter invocation is on an entity resolved as an Edition
\* with that formatter's own relation path set, and the entity carries
\* exactly the relations of that set.
C2_FormatterPairing ==
    \A r \in Reqs : \A i \in 1..Len(calls[r]) :
        LET c == calls[r][i] IN
        /\ c.with = [modelName |-> "Edition",
                     relations |-> OwnRelations(c.formatter)]
        /\ "rel" \in DOMAIN c.entity
        /\ DOMAIN c.entity.rel = Heads(OwnRelations(c.formatter))

C2_Witness ==
    \E r \in Reqs :
        /\ route[r] = "/:bbid/aliases"
        /\ Len(calls[r]) = 1
        /\ calls[r][1].formatter = "getEntityAliases"
        /\ calls[r][1].with.relations = aliasesRelation

\* C3: a request whose store access failed is never answered 404 or 200:
\* the failure travels unchanged to the failure boundary, no formatter runs,
\* and the only response the request gets is one 5xx.
C3_StoreFailurePropagates ==
    \A r \in Reqs :
        storeResult[r] = "failure" =>
            /\ thrown[r] = "StoreFailure"
            /\ pc[r] \in {"error", "sent"}
            /\ calls[r] = <<>>
            /\ locals[r] = NoEntity
            /\ \A i \in 1..Len(responses[r]) :
                   /\ responses[r][i].status \in 500..599
                   /\ responses[r][i].body = [error |-> "StoreFailure"]
            /\ pc[r] = "sent" => Len(responses[r]) = 1
            /\ pc[r] = "error" => Len(responses[r]) = 0

C3_Witness ==
    \E r \in Reqs :
        /\ storeResult[r] = "failure"
        /\ pc[r] = "sent"
        /\ Len(responses[r]) = 1
        /\ responses[r][1].status = 500

\* C4: a request for an id with an Edition behind it never gets 404; once
\* the loader has found the entity, res.locals.entity is the entity of that
\* id, and the response the handler sends is 200 with the route's formatter
\* applied to res.locals.entity.
C4_FoundGives200 ==
    \A r \in Reqs :
        (pc[r] # "idle" /\ HasEdition(bbid[r])) =>
            /\ \A i \in 1..Len(responses[r]) : responses[r][i].status # 404
            /\ storeResult[r] # "absent"
            /\ storeResult[r] = "found" =>
                   /\ locals[r] # NoEntity
                   /\ locals[r].bbid = bbid[r]
                   /\ locals[r].type = "Edition"
                   /\ pc[r] = "sent" =>
                          responses[r] =
                              << [status |-> 200,
                                  body |-> Format(RouteFormatter(route[r]),
                                                  locals[r])] >>

C4_Witness ==
    \E r \in Reqs :
        /\ route[r] = "/:bbid"
        /\ bbid[r] = "e1"
        /\ pc[r] = "sent"
        /\ Len(responses[r]) = 1
        /\ responses[r][1].status = 200
        /\ responses[r][1].body.bbid = "e1"
        /\ responses[r][1].body.defaultAlias = "Dune"
        /\ responses[r][1].body.languages = <<"English", "French">>

\* The list a list route sends, and the list the store holds for it.
ListRoutes == {"/:bbid/aliases", "/:bbid/identifiers", "/:bbid/relationships"}

StoredList(rt, id) ==
    CASE rt = "/:bbid/aliases" -> EditionRows[id].aliasSet
      [] rt = "/:bbid/identifiers" -> EditionRows[id].identifierSet
      [] rt = "/:bbid/relationships" -> EditionRows[id].relationshipSet

SentList(rt, body) ==
    CASE rt = "/:bbid/aliases" -> body.aliases
      [] rt = "/:bbid/identifiers" -> body.identifiers
      [] rt = "/:bbid/relationships" -> body.relationships

\* C5: an existing Edition with no aliases (identifiers, relationships) is
\* answered 200 with an empty list by the handler, never 404; a 404 is
\* written only for an id with no Edition behind it.
C5_EmptyIsNotAbsent ==
    \A r \in Reqs :
        /\ \A i \in 1..Len(responses[r]) :
               responses[r][i].status = 404 => ~HasEdition(bbid[r])
        /\ ( /\ pc[r] = "sent"
             /\ storeResult[r] = "found"
             /\ route[r] \in ListRoutes
             /\ HasEdition(bbid[r])
             /\ Len(StoredList(route[r], bbid[r])) = 0 ) =>
               /\ Len(responses[r]) = 1
               /\ responses[r][1].status = 200
               /\ responses[r][1].body # Undefined
               /\ SentList(route[r], responses[r][1].body) = <<>>

C5_Witness ==
    \E r \in Reqs :
        /\ route[r] = "/:bbid/aliases"
        /\ bbid[r] = "e0"
        /\ pc[r] = "sent"
        /\ responses[r] = << [status |-> 200,
                              body |-> [bbid |-> "e0", aliases |-> <<>>]] >>

\* C6: a request issues its one store read on arrival and never another:
\* found, absent, failed or abandoned, the count is exactly one, also
\* after the handler has run.
C6_OneStoreRead ==
    \A r \in Reqs :
        /\ storeReads[r] <= 1
        /\ pc[r] # "idle" => storeReads[r] = 1

C6_Witness ==
    \E r, q \in Reqs :
        /\ pc[r] = "sent" /\ storeResult[r] = "failure" /\ storeReads[r] = 1
        /\ pc[q] = "sent" /\ storeResult[q] = "found" /\ storeReads[q] = 1

\* C7: two requests on the same route for the same id whose store accesses
\* ended the same way get identical responses, whatever the interleaving,
\* and every formatter invocation of a request is on the entity resolved
\* for that request's own id and route.
C7_NoSharedState ==
    /\ \A r, q \in Reqs :
           ( /\ route[r] = route[q] /\ bbid[r] = bbid[q]
             /\ pc[r] = "sent" /\ pc[q] = "sent"
             /\ storeResult[r] = storeResult[q] ) =>
               responses[r] = responses[q]
    /\ \A r \in Reqs : \A i \in 1..Len(calls[r]) :
           /\ HasEdition(bbid[r])
           /\ calls[r][i].entity =
                  getEntity("Edition", bbid[r], OwnRelations(calls[r][i].formatter))
           /\ calls[r][i].formatter =
                  CASE route[r] = "/:bbid" -> "getEditionBasicInfo"
                    [] route[r] = "/:bbid/aliases" -> "getEntityAliases"
                    [] route[r] = "/:bbid/identifiers" -> "getEntityIdentifiers"
                    [] route[r] = "/:bbid/relationships" -> "getEntityRelationships"

C7_Witness ==
    \E r, q \in Reqs :
        /\ r # q
        /\ route[r] = "/:bbid/aliases" /\ route[q] = "/:bbid/aliases"
        /\ bbid[r] = "e1" /\ bbid[q] = "e1"
        /\ pc[r] = "sent" /\ pc[q] = "sent"
        /\ Len(responses[r]) = 1 /\ responses[r][1].status = 200
        /\ responses[r] = responses[q]

\* C8: once the connection has closed during the pending store access, no
\* formatter is invoked and no response is written for that request, and
\* the request does not get past the loader.
C8_DropCancels ==
    \A r \in Reqs :
        dropped[r] =>
            /\ calls[r] = <<>>
            /\ responses[r] = <<>>
            /\ locals[r] = NoEntity
            /\ pc[r] \in {"loading", "cancelled"}

C8_Witness ==
    \E r \in Reqs :
        /\ dropped[r]
        /\ pc[r] = "cancelled"
        /\ HasEdition(bbid[r])
        /\ calls[r] = <<>>

\* C9: the loader runs first; a formatter has been invoked only when the
\* loader found the entity, attached it and passed control on, and it was
\* invoked on the attached entity; when the loader reports absence no
\* formatter is ever invoked and no 200 is written.
C9_GateBeforeHandler ==
    \A r \in Reqs :
        /\ pc[r] = "loading" => (stage[r] = 1 /\ calls[r] = <<>>)
        /\ calls[r] # <<>> =>
               /\ storeResult[r] = "found"
               /\ locals[r] # NoEntity
               /\ stage[r] = 2
               /\ Len(calls[r]) = 1
               /\ calls[r][1].entity = locals[r]
        /\ storeResult[r] = "absent" =>
               /\ calls[r] = <<>>
               /\ \A i \in 1..Len(responses[r]) : responses[r][i].status # 200

C9_Witness ==
    \E r, q \in Reqs :
        /\ storeResult[r] = "absent" /\ pc[r] = "sent" /\ calls[r] = <<>>
        /\ storeResult[q] = "found" /\ pc[q] = "formatting"
        /\ Len(calls[q]) = 1

\* C10: a request whose pipeline has run to its end on an open connection
\* has received exactly one response (and no request more than one), also
\* when the awaited formatter rejected.
C10_AlwaysAnswered ==
    \A r \in Reqs :
        /\ Len(responses[r]) <= 1
        /\ (Ended(r) /\ ~dropped[r]) => Len(responses[r]) = 1

====
